---- MODULE Spec2Model ----
(***************************************************************************)
(* packed-colony: a packed associative container (src/lib.rs).             *)
(*                                                                         *)
(* ColonyIndex keeps two lookup tables (id -> member index, member index   *)
(* -> id) and a stack of freed ids; Colony pairs a ColonyIndex with the    *)
(* element vector.  Every method is modelled as an operator computing the  *)
(* state the method leaves behind, statement by statement, including the   *)
(* places where Rust panics (slice index out of bounds, checked usize      *)
(* subtraction).  A panic ends the run: the state keeps the assignments    *)
(* made before the panicking statement and no further method is called.    *)
(*                                                                         *)
(* Vectors are sequences; Rust's 0-based position i is element i+1.        *)
(* Option<T> is a sequence of length at most one.                          *)
(***************************************************************************)
EXTENDS Integers, Sequences, FiniteSets, TLC

\* ---------------------------------------------------------------- bounds
\* at most MaxIds elements are stored at once (so ids range over 0..MaxIds-1)
MaxIds == 3
\* element values are 1..MaxVal (u8 in the fuzz harness)
MaxVal == 2

\* std::usize::MAX, the tombstone.  The model's word is the widest one
\* TLC's integers offer; no vector of the model gets near that length.
USIZE_MAX == 2147483647

Values == 1..MaxVal
\* identifiers a caller may pass: every id that can be issued and one that
\* never is (MaxIds, out of range of id_to_index in every state)
IdArgs == 0..MaxIds

None == <<>>
Some(x) == <<x>>

\* ------------------------------------------------------------ Vec helpers
\* v.get(i)
VecGet(v, i) == IF i < Len(v) THEN Some(v[i + 1]) ELSE None
\* v[i] = x, for i in bounds
VecSet(v, i, x) == [v EXCEPT ![i + 1] = x]
\* v.pop(), for v non-empty
VecPop(v) == SubSeq(v, 1, Len(v) - 1)
\* v.swap_remove(i), for i in bounds: the last element takes position i
VecSwapRemove(v, i) == VecPop(VecSet(v, i, v[Len(v)]))

\* ColonyIndex::default()
ColonyIndex_default == [id_to_index |-> <<>>, index_to_id |-> <<>>, freed |-> <<>>]

\* ------------------------------------------------------------ ColonyIndex
\* ColonyIndex::insert reading the top of the freed stack without popping it
ColonyIndex_insert_no_pop(ix, idx) ==
    IF Len(ix.freed) > 0
    THEN LET id == ix.freed[Len(ix.freed)]
         IN  IF ~(id < Len(ix.id_to_index))
             THEN [ix |-> ix, id |-> id, panic |-> TRUE]
             ELSE LET s1 == [ix EXCEPT !.id_to_index = VecSet(ix.id_to_index, id, idx)]
                  IN  IF ~(idx < Len(ix.index_to_id))
                      THEN [ix |-> s1, id |-> id, panic |-> TRUE]
                      ELSE [ix |-> [s1 EXCEPT !.index_to_id = VecSet(ix.index_to_id, idx, id)],
                            id |-> id, panic |-> FALSE]
    ELSE LET id == Len(ix.id_to_index)
         IN  [ix |-> [ix EXCEPT !.id_to_index = Append(ix.id_to_index, idx),
                                !.index_to_id = Append(ix.index_to_id, id)],
              id |-> id, panic |-> FALSE]

\* ColonyIndex::insert taking the oldest freed id (freed used as a queue)
ColonyIndex_insert_fifo(ix, idx) ==
    IF Len(ix.freed) > 0
    THEN LET id == ix.freed[1]
             popped == [ix EXCEPT !.freed = Tail(ix.freed)]
         IN  IF ~(id < Len(ix.id_to_index))
             THEN [ix |-> popped, id |-> id, panic |-> TRUE]
             ELSE LET s1 == [popped EXCEPT !.id_to_index = VecSet(ix.id_to_index, id, idx)]
                  IN  IF ~(idx < Len(ix.index_to_id))
                      THEN [ix |-> s1, id |-> id, panic |-> TRUE]
                      ELSE [ix |-> [s1 EXCEPT !.index_to_id = VecSet(ix.index_to_id, idx, id)],
                            id |-> id, panic |-> FALSE]
    ELSE LET id == Len(ix.id_to_index)
         IN  [ix |-> [ix EXCEPT !.id_to_index = Append(ix.id_to_index, idx),
                                !.index_to_id = Append(ix.index_to_id, id)],
              id |-> id, panic |-> FALSE]

\* ColonyIndex::insert without index_to_id[index] = id on the reuse path
ColonyIndex_insert_no_back_pointer(ix, idx) ==
    IF Len(ix.freed) > 0
    THEN LET id == ix.freed[Len(ix.freed)]
             popped == [ix EXCEPT !.freed = VecPop(ix.freed)]
         IN  IF ~(id < Len(ix.id_to_index))
             THEN [ix |-> popped, id |-> id, panic |-> TRUE]
             ELSE [ix |-> [popped EXCEPT !.id_to_index = VecSet(ix.id_to_index, id, idx)],
                   id |-> id, panic |-> FALSE]
    ELSE LET id == Len(ix.id_to_index)
         IN  [ix |-> [ix EXCEPT !.id_to_index = Append(ix.id_to_index, idx),
                                !.index_to_id = Append(ix.index_to_id, id)],
              id |-> id, panic |-> FALSE]

\* ColonyIndex::insert(index): result [ix, id, panic]
ColonyIndex_insert(ix, idx) ==
    IF Len(ix.freed) > 0
    THEN LET id == ix.freed[Len(ix.freed)]
             popped == [ix EXCEPT !.freed = VecPop(ix.freed)]
         IN  IF ~(id < Len(ix.id_to_index))
             THEN [ix |-> popped, id |-> id, panic |-> TRUE]
             ELSE LET s1 == [popped EXCEPT !.id_to_index = VecSet(ix.id_to_index, id, idx)]
                  IN  IF ~(idx < Len(ix.index_to_id))
                      THEN [ix |-> s1, id |-> id, panic |-> TRUE]
                      ELSE [ix |-> [s1 EXCEPT !.index_to_id = VecSet(ix.index_to_id, idx, id)],
                            id |-> id, panic |-> FALSE]
    ELSE LET id == Len(ix.id_to_index)
         IN  [ix |-> [ix EXCEPT !.id_to_index = Append(ix.id_to_index, idx),
                                !.index_to_id = Append(ix.index_to_id, id)],
              id |-> id, panic |-> FALSE]

\* ColonyIndex::to_index(id)
ColonyIndex_to_index(ix, id) ==
    LET r == VecGet(ix.id_to_index, id)
        idx == IF r = None THEN USIZE_MAX ELSE r[1]
    IN  IF idx = USIZE_MAX THEN None ELSE Some(idx)

\* ColonyIndex::to_index_unchecked(id): result [idx, panic]; id_to_index[id]
\* panics out of range, and a tombstone is returned as it is
ColonyIndex_to_index_unchecked(ix, id) ==
    IF id < Len(ix.id_to_index)
    THEN [idx |-> ix.id_to_index[id + 1], panic |-> FALSE]
    ELSE [idx |-> USIZE_MAX, panic |-> TRUE]

\* ColonyIndex::remove without id_to_index[last_id] = target_index
ColonyIndex_remove_no_repoint(ix, target_id, last_index) ==
    LET r == VecGet(ix.id_to_index, target_id)
        target_index == IF r = None THEN USIZE_MAX ELSE r[1]
    IN  IF target_index = USIZE_MAX
        THEN [ix |-> ix, ret |-> None, panic |-> FALSE]
        ELSE IF ~(last_index < Len(ix.index_to_id))
        THEN [ix |-> ix, ret |-> None, panic |-> TRUE]
        ELSE LET last_id == ix.index_to_id[last_index + 1]
                 s1 == [ix EXCEPT !.id_to_index = VecSet(ix.id_to_index, target_id, USIZE_MAX)]
             IN  IF ~(target_index < Len(s1.index_to_id))
                 THEN [ix |-> s1, ret |-> None, panic |-> TRUE]
                 ELSE [ix |-> [s1 EXCEPT !.index_to_id = VecSet(s1.index_to_id, target_index, last_id),
                                         !.freed = Append(s1.freed, target_id)],
                       ret |-> Some(target_index), panic |-> FALSE]

\* ColonyIndex::remove(target_id, last_index): result [ix, ret, panic]
ColonyIndex_remove(ix, target_id, last_index) ==
    LET r == VecGet(ix.id_to_index, target_id)
        target_index == IF r = None THEN USIZE_MAX ELSE r[1]
    IN  IF target_index = USIZE_MAX
        THEN [ix |-> ix, ret |-> None, panic |-> FALSE]
        ELSE IF ~(last_index < Len(ix.index_to_id))
        THEN [ix |-> ix, ret |-> None, panic |-> TRUE]
        ELSE LET last_id == ix.index_to_id[last_index + 1]
                 s1 == [ix EXCEPT !.id_to_index = VecSet(ix.id_to_index, target_id, USIZE_MAX)]
             IN  IF ~(last_id < Len(s1.id_to_index))
                 THEN [ix |-> s1, ret |-> None, panic |-> TRUE]
                 ELSE LET s2 == [s1 EXCEPT !.id_to_index = VecSet(s1.id_to_index, last_id, target_index)]
                      IN  IF ~(target_index < Len(s2.index_to_id))
                          THEN [ix |-> s2, ret |-> None, panic |-> TRUE]
                          ELSE [ix |-> [s2 EXCEPT !.index_to_id = VecSet(s2.index_to_id, target_index, last_id),
                                                  !.freed = Append(s2.freed, target_id)],
                                ret |-> Some(target_index), panic |-> FALSE]

\* ----------------------------------------------------------------- Colony
\* a Colony value: [index |-> ColonyIndex, elements |-> Vec<T>]
\* Colony::default()
Colony_default == [index |-> ColonyIndex_default, elements |-> <<>>]

\* Colony::insert without elements.push(entity)
Colony_insert_no_push(c, entity) ==
    LET r == ColonyIndex_insert(c.index, Len(c.elements))
    IN  [c |-> [c EXCEPT !.index = r.ix], id |-> r.id, panic |-> r.panic]

\* Colony::insert(entity): result [c, id, panic]
Colony_insert(c, entity) ==
    LET r == ColonyIndex_insert(c.index, Len(c.elements))
    IN  IF r.panic
        THEN [c |-> [c EXCEPT !.index = r.ix], id |-> r.id, panic |-> TRUE]
        ELSE [c |-> [index |-> r.ix, elements |-> Append(c.elements, entity)],
              id |-> r.id, panic |-> FALSE]

\* Colony::get(id)
Colony_get(c, id) ==
    LET r == ColonyIndex_to_index(c.index, id)
    IN  IF r # None THEN VecGet(c.elements, r[1]) ELSE None

\* Colony::get_mut(id): the element the returned reference points at
Colony_get_mut(c, id) ==
    LET r == ColonyIndex_to_index(c.index, id)
    IN  IF r # None THEN VecGet(c.elements, r[1]) ELSE None

\* Index::index with the id used as the position in elements
Colony_index_by_position(c, id) ==
    IF id < Len(c.elements)
    THEN [ret |-> Some(c.elements[id + 1]), panic |-> FALSE]
    ELSE [ret |-> None, panic |-> TRUE]

\* Index::index(id), colony[id]: result [ret, panic]; ret is the element
\* referred to, and an out-of-bounds id or slot panics
Colony_index(c, id) ==
    LET r == ColonyIndex_to_index_unchecked(c.index, id)
    IN  IF ~r.panic /\ r.idx < Len(c.elements)
        THEN [ret |-> Some(c.elements[r.idx + 1]), panic |-> FALSE]
        ELSE [ret |-> None, panic |-> TRUE]

\* IndexMut::index_mut(id) and the store through it, colony[id] = v:
\* result [c, panic]
Colony_index_mut(c, id, v) ==
    LET r == ColonyIndex_to_index_unchecked(c.index, id)
    IN  IF ~r.panic /\ r.idx < Len(c.elements)
        THEN [c |-> [c EXCEPT !.elements = VecSet(c.elements, r.idx, v)], panic |-> FALSE]
        ELSE [c |-> c, panic |-> TRUE]

\* Colony::as_slice(), Deref::deref(), IntoIterator::into_iter(): the
\* elements in buffer order
Colony_as_slice(c) == c.elements

\* Colony::remove with Vec::remove (later elements shift down) in place of
\* Vec::swap_remove
Colony_remove_ordered(c, id, oc) ==
    IF Len(c.elements) = 0 /\ oc
    THEN [c |-> c, panic |-> TRUE]
    ELSE LET last_index == IF Len(c.elements) = 0 THEN USIZE_MAX ELSE Len(c.elements) - 1
             r == ColonyIndex_remove(c.index, id, last_index)
         IN  IF r.panic
             THEN [c |-> [c EXCEPT !.index = r.ix], panic |-> TRUE]
             ELSE IF r.ret = None
             THEN [c |-> [c EXCEPT !.index = r.ix], panic |-> FALSE]
             ELSE IF ~(r.ret[1] < Len(c.elements))
             THEN [c |-> [c EXCEPT !.index = r.ix], panic |-> TRUE]
             ELSE [c |-> [index |-> r.ix,
                          elements |-> SubSeq(c.elements, 1, r.ret[1])
                                       \o SubSeq(c.elements, r.ret[1] + 2, Len(c.elements))],
                   panic |-> FALSE]

\* Colony::remove without elements.swap_remove(index)
Colony_remove_no_swap(c, id, oc) ==
    IF Len(c.elements) = 0 /\ oc
    THEN [c |-> c, panic |-> TRUE]
    ELSE LET last_index == IF Len(c.elements) = 0 THEN USIZE_MAX ELSE Len(c.elements) - 1
             r == ColonyIndex_remove(c.index, id, last_index)
         IN  [c |-> [c EXCEPT !.index = r.ix], panic |-> r.panic]

\* Colony::remove(id): result [c, panic].  oc: the build checks arithmetic
\* overflow (debug and test profiles), so elements.len() - 1 panics on an
\* empty vector; without the check it wraps to usize::MAX.
Colony_remove(c, id, oc) ==
    IF Len(c.elements) = 0 /\ oc
    THEN [c |-> c, panic |-> TRUE]
    ELSE LET last_index == IF Len(c.elements) = 0 THEN USIZE_MAX ELSE Len(c.elements) - 1
             r == ColonyIndex_remove(c.index, id, last_index)
         IN  IF r.panic
             THEN [c |-> [c EXCEPT !.index = r.ix], panic |-> TRUE]
             ELSE IF r.ret = None
             THEN [c |-> [c EXCEPT !.index = r.ix], panic |-> FALSE]
             ELSE IF ~(r.ret[1] < Len(c.elements))
             THEN [c |-> [c EXCEPT !.index = r.ix], panic |-> TRUE]
             ELSE [c |-> [index |-> r.ix, elements |-> VecSwapRemove(c.elements, r.ret[1])],
                   panic |-> FALSE]

\* Colony::clear without elements.clear()
Colony_clear_index_only(c) == [c EXCEPT !.index = ColonyIndex_default]

\* Colony::clear emptying the two tables but keeping the freed stack
Colony_clear_keep_freed(c) ==
    [index |-> [ColonyIndex_default EXCEPT !.freed = c.index.freed], elements |-> <<>>]

\* Colony::clear()
Colony_clear(c) == [index |-> ColonyIndex_default, elements |-> <<>>]

\* ------------------------------------------------------------------ state
VARIABLES
    index,            \* Colony.index: the ColonyIndex
    elements,         \* Colony.elements
    panicked,         \* a method call has panicked
    overflow_checks,  \* the build traps usize overflow
    values,           \* the fuzz harness's HashMap: id -> value of the ids it holds
    lastOp,           \* the last call that changed the Colony or panicked
    retired,          \* history: the ids removed and not reissued, oldest first
    afterClear        \* history: Some([inserts, freed]) while only inserts
                      \* changed the Colony since the last clear: how many,
                      \* and len(freed) when clear was called

vars == <<index, elements, panicked, overflow_checks, values, lastOp, retired, afterClear>>

\* the Colony of the current state
colony == [index |-> index, elements |-> elements]

\* a record of one call: the method and its argument (insert: the id it
\* returned; remove, index, index_mut: the id passed; clear: elements.len()
\* before)
Op(op, arg) == [op |-> op, arg |-> arg]

NoOp == Op("new", 0)

\* seq without the entries equal to id
Without(seq, id) == LET keep(x) == x # id IN SelectSeq(seq, keep)

Init ==
    /\ index = Colony_default.index
    /\ elements = Colony_default.elements
    /\ panicked = FALSE
    /\ overflow_checks \in BOOLEAN
    /\ values = [i \in {} |-> 0]
    /\ lastOp = NoOp
    /\ retired = <<>>
    /\ afterClear = None

\* colony.insert(v); the harness records values.insert(id, v)
Insert(v) ==
    /\ ~panicked
    /\ Len(elements) < MaxIds
    /\ LET r == Colony_insert(colony, v)
       IN  /\ index' = r.c.index
           /\ elements' = r.c.elements
           /\ panicked' = r.panic
           /\ values' = IF r.panic THEN values
                        ELSE [i \in DOMAIN values \cup {r.id} |-> IF i = r.id THEN v ELSE values[i]]
           /\ lastOp' = Op("insert", r.id)
           /\ retired' = IF r.panic THEN retired ELSE Without(retired, r.id)
           /\ afterClear' = IF r.panic \/ afterClear = None THEN afterClear
                            ELSE Some([afterClear[1] EXCEPT !.inserts = @ + 1])
    /\ UNCHANGED overflow_checks

\* colony.get(id): a read, nothing changes
Get(id) ==
    /\ ~panicked
    /\ Colony_get(colony, id) \in {None} \cup {Some(v) : v \in Values}
    /\ UNCHANGED vars

\* colony.get_mut(id): hands out a reference, nothing changes
GetMut(id) ==
    /\ ~panicked
    /\ Colony_get_mut(colony, id) \in {None} \cup {Some(v) : v \in Values}
    /\ UNCHANGED vars

\* colony.remove(id); the harness forgets id
Remove(id) ==
    /\ ~panicked
    /\ LET r == Colony_remove(colony, id, overflow_checks)
       IN  /\ index' = r.c.index
           /\ elements' = r.c.elements
           /\ panicked' = r.panic
           /\ values' = IF r.panic THEN values
                        ELSE [i \in DOMAIN values \ {id} |-> values[i]]
           /\ lastOp' = IF r.c # colony \/ r.panic THEN Op("remove", id) ELSE lastOp
           /\ retired' = IF ~r.panic /\ id \in DOMAIN values
                         THEN Append(retired, id) ELSE retired
           /\ afterClear' = IF r.c # colony \/ r.panic THEN None ELSE afterClear
    /\ UNCHANGED overflow_checks

\* colony.clear()
Clear ==
    /\ ~panicked
    /\ LET c2 == Colony_clear(colony)
       IN  /\ index' = c2.index
           /\ elements' = c2.elements
           /\ lastOp' = IF c2 # colony THEN Op("clear", Len(elements)) ELSE lastOp
    /\ values' = [i \in {} |-> 0]
    /\ retired' = <<>>
    /\ afterClear' = Some([inserts |-> 0, freed |-> Len(index.freed)])
    /\ UNCHANGED <<panicked, overflow_checks>>

\* colony[id]: a read; panics when the id or its slot is out of bounds
Index(id) ==
    /\ ~panicked
    /\ LET r == Colony_index(colony, id)
       IN  /\ panicked' = r.panic
           /\ lastOp' = IF r.panic THEN Op("index", id) ELSE lastOp
    /\ UNCHANGED <<index, elements, overflow_checks, values, retired, afterClear>>

\* colony[id] = v (tests::basic); the harness map follows the store.  A
\* panic here is the fault of the same unchecked lookup as in Index and is
\* recorded as that
IndexMut(id, v) ==
    /\ ~panicked
    /\ LET r == Colony_index_mut(colony, id, v)
       IN  /\ index' = r.c.index
           /\ elements' = r.c.elements
           /\ panicked' = r.panic
           /\ values' = IF ~r.panic /\ id \in DOMAIN values
                        THEN [values EXCEPT ![id] = v] ELSE values
           /\ lastOp' = IF r.panic THEN Op("index", id)
                        ELSE IF r.c # colony THEN Op("index_mut", id) ELSE lastOp
    /\ UNCHANGED <<overflow_checks, retired, afterClear>>

\* colony.as_slice() / &*colony: a read, nothing changes
AsSlice ==
    /\ ~panicked
    /\ Len(Colony_as_slice(colony)) = Len(elements)
    /\ UNCHANGED vars

Next ==
    \/ \E v \in Values : Insert(v)
    \/ \E id \in IdArgs : Get(id)
    \/ \E id \in IdArgs : GetMut(id)
    \/ \E id \in IdArgs : Remove(id)
    \/ Clear
    \/ \E id \in IdArgs : Index(id)
    \/ \E id \in IdArgs, v \in Values : IndexMut(id, v)
    \/ AsSlice

Spec == Init /\ [][Next]_vars

\* ----------------------------------------------------------- vocabulary
\* ids the harness holds: issued by insert and not removed since
LiveIds == DOMAIN values
\* id resolves to an element
IsLive(c, id) == Colony_get(c, id) # None
\* this step is the call colony.remove(id) and changes the state (Remove(id),
\* with the cheap tests first)
RemoveStep(id) ==
    /\ vars' # vars
    /\ lastOp' \in {lastOp, Op("remove", id)}
    /\ Remove(id)
\* what every state-changing Remove(id) step satisfies, whatever the id
RemoveLike == vars' # vars /\ (lastOp' = lastOp \/ lastOp'.op = "remove")
\* what every step that changes which ids resolve satisfies
ResolutionChanges == index' # index \/ Len(elements') # Len(elements)
\* this step is the call colony.insert(v) (Insert(v), with the cheap test
\* first)
InsertStep(v) == lastOp'.op = "insert" /\ Insert(v)
\* the id on top of the freed stack
TopFreed == IF Len(index.freed) > 0 THEN Some(index.freed[Len(index.freed)]) ELSE None
\* id was removed while it occupied the last slot: it sits in freed with
\* its id_to_index entry still naming the slot it had
RemovedFromLastSlot(id) ==
    /\ \E k \in 1..Len(index.freed) : index.freed[k] = id
    /\ VecGet(index.id_to_index, id) # Some(USIZE_MAX)

TypeOK ==
    /\ panicked \in BOOLEAN
    /\ overflow_checks \in BOOLEAN
    /\ Len(elements) <= MaxIds
    /\ \A i \in 1..Len(elements) : elements[i] \in Values
    /\ Len(index.id_to_index) <= MaxIds
    /\ \A i \in 1..Len(index.id_to_index) :
          index.id_to_index[i] \in (0..(MaxIds - 1)) \cup {USIZE_MAX}
    /\ \A i \in 1..Len(index.index_to_id) : index.index_to_id[i] \in 0..(MaxIds - 1)
    /\ \A i \in 1..Len(index.freed) : index.freed[i] \in 0..(MaxIds - 1)
    /\ DOMAIN values \subseteq 0..(MaxIds - 1)
    /\ lastOp.op \in {"new", "insert", "remove", "clear", "index", "index_mut"}
    /\ \A i \in 1..Len(retired) : retired[i] \in 0..(MaxIds - 1)
    /\ afterClear = None \/ afterClear[1].inserts \in 0..MaxIds

\* what a caller can observe of a Colony: its length, the buffer, the result
\* of get for every identifier, and the identifier the next insert returns
Observable(c) ==
    [len |-> Len(c.elements),
     buf |-> c.elements,
     get |-> [id \in IdArgs |-> Colony_get(c, id)],
     next |-> Colony_insert(c, 1).id]

\* ----------------------------------------------------------------- claims

\* C1: round trip and identifier stability.  While the program runs, every
\* identifier returned by insert and not removed since resolves through get
\* to the value inserted with it (or stored through it since), whatever
\* inserts, removes of other ids and stores through other ids happened in
\* between.
C1_RoundTrip ==
    ~panicked => \A id \in LiveIds : Colony_get(colony, id) = Some(values[id])

\* a remove below the last slot has just moved an element (the removed id is
\* tombstoned on top of freed), and two held ids with different values
\* still resolve to them
C1_Witness ==
    /\ ~panicked
    /\ lastOp.op = "remove" /\ TopFreed = Some(lastOp.arg)
    /\ VecGet(index.id_to_index, lastOp.arg) = Some(USIZE_MAX)
    /\ \E i, j \in LiveIds :
          /\ values[i] # values[j]
          /\ Colony_get(colony, i) = Some(values[i])
          /\ Colony_get(colony, j) = Some(values[j])

\* C2: post-removal consistency.  A remove of a live identifier x returns
\* normally and leaves every other live identifier live and resolving to the
\* value it had.
C2_PostRemoval ==
    [][RemoveLike =>
         \A x \in IdArgs :
            (RemoveStep(x) /\ IsLive(colony, x))
               => /\ ~panicked'
                  /\ \A y \in IdArgs \ {x} :
                        IsLive(colony, y) => Colony_get(colony', y) = Colony_get(colony, y)]_vars

\* a live identifier below the last slot was removed and the identifier that
\* was in the last slot now resolves to the vacated slot
C2_Witness ==
    /\ ~panicked
    /\ lastOp.op = "remove" /\ TopFreed = Some(lastOp.arg)
    /\ VecGet(index.id_to_index, lastOp.arg) = Some(USIZE_MAX)
    /\ Len(elements) >= 2
    /\ \E y \in LiveIds : ColonyIndex_to_index(index, y) # Some(y)

\* C3: idempotent removal.  After remove(id) of a live identifier, a second
\* remove(id) returns normally and changes nothing observable.
C3_IdempotentRemoval ==
    [][\A id \in IdArgs :
         (/\ lastOp = Op("remove", id) /\ TopFreed = Some(id)
          /\ RemoveStep(id))
            => /\ ~panicked'
               /\ Observable(colony') = Observable(colony)]_vars

\* C4: removing a never-issued (out of range) identifier returns normally
\* and leaves the buffer, both tables and the free list as they were.
C4_RemoveAbsentNoOp ==
    [][\A id \in IdArgs :
         (~(id < Len(index.id_to_index)) /\ RemoveStep(id))
            => /\ ~panicked'
               /\ UNCHANGED <<index, elements>>]_vars

\* C5: get, get_mut, remove and clear return normally for every identifier
\* in every reachable state.
C5_NoLoudFailure ==
    ~(panicked /\ lastOp.op \in {"get", "get_mut", "remove", "clear"})

\* C6: density.  While the program runs, the buffer's length is the number
\* of live identifiers, every live identifier resolves to a slot below that
\* length, and the slots so resolved are exactly 0..len-1.
C6_Density ==
    ~panicked =>
        /\ Len(elements) = Cardinality(LiveIds)
        /\ \A id \in LiveIds :
              /\ ColonyIndex_to_index(index, id) # None
              /\ ColonyIndex_to_index(index, id)[1] < Len(elements)
        /\ {ColonyIndex_to_index(index, id)[1] : id \in LiveIds} = 0..(Len(elements) - 1)

\* removes have shrunk a buffer that still holds two elements, with two
\* freed ids on the stack
C6_Witness ==
    /\ ~panicked
    /\ lastOp.op = "remove" /\ TopFreed = Some(lastOp.arg)
    /\ Len(elements) >= 1
    /\ Len(index.freed) >= 2
    /\ Cardinality(LiveIds) = Len(elements)

\* C7: no aliasing.  Two different live identifiers never resolve to the
\* same slot.
C7_NoAliasing ==
    \A i, j \in LiveIds :
        i # j => /\ ColonyIndex_to_index(index, i) # None
                 /\ ColonyIndex_to_index(index, i) # ColonyIndex_to_index(index, j)

\* an insert has just reused a freed identifier next to another live one
C7_Witness ==
    /\ ~panicked
    /\ lastOp.op = "insert" /\ lastOp.arg # Len(index.id_to_index) - 1
    /\ \E j \in LiveIds :
          /\ j # lastOp.arg
          /\ ColonyIndex_to_index(index, j) # ColonyIndex_to_index(index, lastOp.arg)

\* C8: a remove of a live identifier a makes get(a) absent and shortens the
\* buffer by one, and an identifier that get reports absent starts to
\* resolve only by the insert that returns it.
C8_RemovedStayAbsent ==
    [][/\ RemoveLike =>
            \A a \in IdArgs :
               (RemoveStep(a) /\ IsLive(colony, a))
                  => /\ ~panicked'
                     /\ Colony_get(colony', a) = None
                     /\ Len(elements') = Len(elements) - 1
       /\ ResolutionChanges =>
            \A a \in IdArgs :
               (~IsLive(colony, a) /\ IsLive(colony', a))
                  => \E v \in Values : InsertStep(v) /\ lastOp' = Op("insert", a)]_vars

\* an identifier was removed from the last slot, a later call changed the
\* store, elements remain, and the identifier is still absent
C8_Witness ==
    /\ ~panicked
    /\ lastOp.op \in {"insert", "remove"}
    /\ Len(elements) >= 1
    /\ \E a \in 0..(MaxIds - 1) :
          /\ a # lastOp.arg
          /\ a \notin LiveIds
          /\ RemovedFromLastSlot(a)
          /\ Colony_get(colony, a) = None

\* C9: clear leaves length 0 and every identifier absent, and a second clear
\* changes nothing.
C9_ClearResets ==
    [][Clear
         => /\ Len(elements') = 0
            /\ \A id \in IdArgs : Colony_get(colony', id) = None
            /\ Colony_clear(colony') = colony']_vars

\* clear has just emptied a store that held elements
C9_Witness ==
    /\ lastOp.op = "clear" /\ lastOp.arg >= 2
    /\ Len(elements) = 0
    /\ \A id \in IdArgs : Colony_get(colony, id) = None

\* C10: the identifier insert returns is not live when insert is called.
C10_InsertNotLive ==
    [][\A v \in Values :
         (InsertStep(v) /\ ~panicked')
            => /\ lastOp'.arg \notin LiveIds
               /\ ~IsLive(colony, lastOp'.arg)]_vars

\* insert has just reused a freed identifier while two others are live
C10_Witness ==
    /\ ~panicked
    /\ lastOp.op = "insert" /\ lastOp.arg # Len(index.id_to_index) - 1
    /\ lastOp.arg \in LiveIds
    /\ Cardinality(LiveIds) >= 3

\* C11: unchecked indexed access agrees with the checked accessors on live
\* identifiers.  While the program runs, for every live id colony[id] returns
\* normally and refers to the element get(id) and get_mut(id) refer to, and
\* after colony[id] = v both colony[id] and get(id) read v.
C11_IndexAgreesWithGet ==
    ~panicked =>
        \A id \in LiveIds :
            /\ ~Colony_index(colony, id).panic
            /\ Colony_index(colony, id).ret = Colony_get(colony, id)
            /\ Colony_index(colony, id).ret = Colony_get_mut(colony, id)
            /\ \A v \in Values :
                  LET w == Colony_index_mut(colony, id, v)
                  IN  /\ ~w.panic
                      /\ Colony_index(w.c, id) = [ret |-> Some(v), panic |-> FALSE]
                      /\ Colony_get(w.c, id) = Some(v)

\* colony[id] = v has just stored a value through an identifier that does
\* not sit at the slot of its own number, and both accessors read it back
C11_Witness ==
    /\ ~panicked
    /\ lastOp.op = "index_mut" /\ lastOp.arg \in LiveIds
    /\ ColonyIndex_to_index(index, lastOp.arg) # Some(lastOp.arg)
    /\ Colony_index(colony, lastOp.arg).ret = Some(values[lastOp.arg])
    /\ Colony_get(colony, lastOp.arg) = Some(values[lastOp.arg])
    /\ \E j \in LiveIds : values[j] # values[lastOp.arg]

\* C18: unchecked indexed access is never silently tolerant.  While the
\* program runs, colony[id] and colony[id] = v with an identifier that is
\* not live panic and reach no element.
C18_IndexFaultsOnDead ==
    ~panicked =>
        \A id \in IdArgs \ LiveIds :
            /\ Colony_index(colony, id) = [ret |-> None, panic |-> TRUE]
            /\ \A v \in Values : Colony_index_mut(colony, id, v) = [c |-> colony, panic |-> TRUE]

\* colony[a] has just panicked for an identifier removed while it occupied
\* the last slot, with elements still stored
C18_Witness ==
    /\ panicked
    /\ lastOp.op = "index"
    /\ RemovedFromLastSlot(lastOp.arg)
    /\ Len(elements) >= 1

\* the ids on the freed stack
FreedIds == {index.freed[k] : k \in 1..Len(index.freed)}

\* C12: invariant I1 (bijection).  While the program runs, every occupied
\* slot s has id_to_index[index_to_id[s]] = s, and every identifier that is
\* neither tombstoned nor in freed has index_to_id[id_to_index[i]] = i.
C12_Bijection ==
    ~panicked =>
        /\ \A s \in 0..(Len(elements) - 1) :
              /\ VecGet(index.index_to_id, s) # None
              /\ VecGet(index.id_to_index, index.index_to_id[s + 1]) = Some(s)
        /\ \A i \in 0..(Len(index.id_to_index) - 1) :
              (index.id_to_index[i + 1] # USIZE_MAX /\ i \notin FreedIds)
                 => /\ i \in LiveIds
                    /\ VecGet(index.index_to_id, index.id_to_index[i + 1]) = Some(i)

\* after a remove below the last slot, a live identifier sits at a slot
\* other than the one it was issued at, next to a freed identifier
C12_Witness ==
    /\ ~panicked
    /\ lastOp.op = "remove" /\ TopFreed = Some(lastOp.arg)
    /\ VecGet(index.id_to_index, lastOp.arg) = Some(USIZE_MAX)
    /\ \E i \in LiveIds :
          /\ ColonyIndex_to_index(index, i) # Some(i)
          /\ VecGet(index.index_to_id, ColonyIndex_to_index(index, i)[1]) = Some(i)

\* C13: invariant I3 (identifier space).  Every identifier issued is below
\* len(id_to_index), every identifier in freed is tombstoned in id_to_index,
\* and freed holds no identifier twice.
C13_IdentifierSpace ==
    ~panicked =>
        /\ \A id \in LiveIds \cup FreedIds : id < Len(index.id_to_index)
        /\ \A id \in FreedIds : VecGet(index.id_to_index, id) = Some(USIZE_MAX)
        /\ Cardinality(FreedIds) = Len(index.freed)

\* C14: when ColonyIndex::remove returns a slot (the id is pushed on freed),
\* the target is tombstoned afterwards and to_index reports it absent.
C14_RemoveTombstones ==
    [][RemoveLike =>
         \A id \in IdArgs :
            (RemoveStep(id) /\ Len(index'.freed) = Len(index.freed) + 1)
               => /\ VecGet(index'.id_to_index, id) = Some(USIZE_MAX)
                  /\ ColonyIndex_to_index(index', id) = None]_vars

\* C16: swap-remove effect on the buffer.  A remove of a live identifier at
\* slot s of a buffer of length n leaves length n-1, the old last element at
\* slot s (when s is not the last slot) and every other slot as it was.
C16_SwapRemoveEffect ==
    [][RemoveLike =>
         \A id \in IdArgs :
            (RemoveStep(id) /\ IsLive(colony, id))
               => LET s == ColonyIndex_to_index(index, id)[1]
                      n == Len(elements)
                  IN  /\ Len(elements') = n - 1
                      /\ s # n - 1 => elements'[s + 1] = elements[n]
                      /\ \A t \in 0..(n - 2) : t # s => elements'[t + 1] = elements[t + 1]]_vars

\* a remove below the last slot has just moved the last element down, next
\* to an element with another value that stayed where it was
C16_Witness ==
    /\ ~panicked
    /\ lastOp.op = "remove" /\ TopFreed = Some(lastOp.arg)
    /\ VecGet(index.id_to_index, lastOp.arg) = Some(USIZE_MAX)
    /\ Len(elements) >= 2
    /\ \E t \in 1..Len(elements) : elements[t] # elements[1]

\* C19: the bulk view holds exactly the live elements.  While the program
\* runs, as_slice() has one entry per live identifier, entry s is the
\* element get(index_to_id[s]) resolves to, and the identifiers of the
\* entries are the live ones, each once.
C19_BulkView ==
    ~panicked =>
        LET sl == Colony_as_slice(colony)
            owner(s) == index.index_to_id[s + 1]
        IN  /\ Len(sl) = Cardinality(LiveIds)
            /\ \A s \in 0..(Len(sl) - 1) :
                  /\ VecGet(index.index_to_id, s) # None
                  /\ owner(s) \in LiveIds
                  /\ Colony_get(colony, owner(s)) = Some(sl[s + 1])
                  /\ values[owner(s)] = sl[s + 1]
            /\ \A s, t \in 0..(Len(sl) - 1) : s # t => owner(s) # owner(t)
            /\ {owner(s) : s \in 0..(Len(sl) - 1)} = LiveIds

\* after removes and a reuse, the view holds two entries of different value
\* whose owners are not at the slots of their own numbers
C19_Witness ==
    /\ ~panicked
    /\ lastOp.op = "insert" /\ lastOp.arg # Len(index.id_to_index) - 1
    /\ Len(Colony_as_slice(colony)) >= 2
    /\ \E s \in 1..Len(elements) :
          /\ index.index_to_id[s] # s - 1
          /\ elements[s] # elements[1]

\* C20: table sizes.  While the program runs, len(id_to_index) =
\* len(index_to_id) = len(elements) + len(freed); so when freed is not empty
\* the tail slot is inside index_to_id and insert's reuse path does not
\* panic.
C20_TableSizes ==
    ~panicked =>
        /\ Len(index.id_to_index) = Len(index.index_to_id)
        /\ Len(index.index_to_id) = Len(elements) + Len(index.freed)
        /\ Len(index.freed) > 0
              => /\ Len(elements) < Len(index.index_to_id)
                 /\ ~Colony_insert(colony, 1).panic

\* insert has just taken the reuse path while another freed id remains
C20_Witness ==
    /\ ~panicked
    /\ lastOp.op = "insert" /\ lastOp.arg # Len(index.id_to_index) - 1
    /\ Len(index.freed) >= 1
    /\ Len(elements) >= 1

\* the ids in retired
RetiredIds == {retired[k] : k \in 1..Len(retired)}

\* C15: identifier allocation rule.  While the program runs, the next insert
\* returns, when the free stack is not empty, the identifier removed most
\* recently among those not reissued, and otherwise the length of
\* id_to_index, which is the number of distinct identifiers issued since
\* construction or the last clear; either way both tables map it to the new
\* tail slot.
C15_AllocationRule ==
    ~panicked =>
        \A v \in Values :
            LET r == Colony_insert(colony, v)
                n == Len(elements)
            IN  /\ ~r.panic
                /\ IF Len(index.freed) > 0
                   THEN /\ retired # <<>>
                        /\ r.id = retired[Len(retired)]
                        /\ Len(r.c.index.freed) = Len(index.freed) - 1
                   ELSE /\ retired = <<>>
                        /\ r.id = Len(index.id_to_index)
                        /\ r.id = Cardinality(LiveIds \cup RetiredIds)
                /\ VecGet(r.c.index.id_to_index, r.id) = Some(n)
                /\ VecGet(r.c.index.index_to_id, n) = Some(r.id)

\* insert has just reissued the identifier removed last, not the one removed
\* before it, which is still retired
C15_Witness ==
    /\ ~panicked
    /\ lastOp.op = "insert" /\ lastOp.arg # Len(index.id_to_index) - 1
    /\ lastOp.arg \in LiveIds
    /\ Len(retired) >= 1
    /\ ColonyIndex_to_index(index, lastOp.arg) = Some(Len(elements) - 1)

\* C17: the identifier space restarts after clear.  While only inserts
\* followed the last clear, k of them, the free stack is empty, the
\* identifiers issued are 0..k-1 and the next insert returns k.
C17_RestartAfterClear ==
    (~panicked /\ afterClear # None) =>
        LET k == afterClear[1].inserts
        IN  /\ index.freed = <<>>
            /\ LiveIds = 0..(k - 1)
            /\ \A v \in Values :
                  /\ ~Colony_insert(colony, v).panic
                  /\ Colony_insert(colony, v).id = k

\* two inserts followed a clear that was called with freed ids on the stack
C17_Witness ==
    /\ ~panicked
    /\ afterClear # None
    /\ afterClear[1].inserts = 2 /\ afterClear[1].freed >= 1
    /\ lastOp = Op("insert", 1)
    /\ LiveIds = {0, 1}

====
